---- MODULE Spec2Model ----
(***************************************************************************)
(* The long-word ratio benchmark: inPython.py (shortLong and its harness)  *)
(* and withRust.py (the cffi harness around the native short_long).        *)
(*                                                                         *)
(* A text is a sequence of Unicode code points (a Python str); a bytes     *)
(* object is a sequence of integers 0..255.  A Python float that is the    *)
(* quotient of two small non-negative integers is kept exactly, as the     *)
(* fraction in lowest terms: int / int is correctly rounded, so two such   *)
(* quotients are the same float exactly when the reduced fractions agree.  *)
(***************************************************************************)
EXTENDS Integers, Sequences, FiniteSets, TLC

VARIABLES
  script,    \* which of the two scripts is running: "inPython" or "withRust"
  file,      \* the part of formalSentences.txt not yet read
  example,   \* the module-level text both scripts load
  pc,        \* position of the running script
  calls,     \* every call of shortLong so far: its argument and its outcome
  ffiCalls,  \* every call of lib.short_long so far: the buffer and the length passed
  runs,      \* timed runs of the_code completed by timeit.repeat
  stdout     \* the lines printed so far

vars == <<script, file, example, pc, calls, ffiCalls, runs, stdout>>

-----------------------------------------------------------------------------
(* Bounds of the model: the file is a concatenation of at most MaxPieces    *)
(* of the pieces below.                                                     *)
MaxPieces == 3

the == <<116, 104, 101>>
a == <<97>>
The == <<84, 104, 101>>
A == <<65>>
x == <<120>>
w8 == <<97, 98, 99, 100, 101, 102, 103, 104>>
w9 == <<97, 98, 99, 100, 101, 102, 103, 104, 105>>
e5 == <<233, 233, 233, 233, 233>>
SP == <<32>>
TAB == <<9>>
NL == <<10>>

Pieces == {the, a, The, A, x, w8, w9, e5, SP, TAB, NL}

RECURSIVE TextsOf(_)
TextsOf(n) ==
  IF n = 0 THEN {<<>>}
  ELSE LET S == TextsOf(n - 1) IN S \cup {t \o p : t \in S, p \in Pieces}

Texts == TextsOf(MaxPieces)

-----------------------------------------------------------------------------
(* str.split() with no separator: the code points for which str.isspace()  *)
(* holds separate the words.                                                *)
IsSpace(c) ==
  \/ c \in {9, 10, 11, 12, 13, 28, 29, 30, 31, 32, 133, 160, 5760}
  \/ c \in 8192..8202
  \/ c \in {8232, 8233, 8239, 8287, 12288}

RECURSIVE splitFrom(_, _, _, _)
splitFrom(string, i, cur, acc) ==
  IF i > Len(string)
  THEN IF cur = <<>> THEN acc ELSE Append(acc, cur)
  ELSE IF IsSpace(string[i])
       THEN splitFrom(string, i + 1, <<>>,
                      IF cur = <<>> THEN acc ELSE Append(acc, cur))
       ELSE splitFrom(string, i + 1, Append(cur, string[i]), acc)

(* Mutant of split: string.split(" "), which cuts at every single space    *)
(* and at nothing else, and keeps the empty tokens.                         *)
RECURSIVE splitOnSpaceFrom(_, _, _, _)
splitOnSpaceFrom(string, i, cur, acc) ==
  IF i > Len(string)
  THEN Append(acc, cur)
  ELSE IF string[i] = 32
       THEN splitOnSpaceFrom(string, i + 1, <<>>, Append(acc, cur))
       ELSE splitOnSpaceFrom(string, i + 1, Append(cur, string[i]), acc)

split_onSpace(string) == splitOnSpaceFrom(string, 1, <<>>, <<>>)

split(string) == splitFrom(string, 1, <<>>, <<>>)

(* Mutant of IsKept: the comparison ignores case.                           *)
RECURSIVE Lower(_)
Lower(w) ==
  IF w = <<>> THEN <<>>
  ELSE <<IF Head(w) \in 65..90 THEN Head(w) + 32 ELSE Head(w)>> \o Lower(Tail(w))

IsKept_nocase(i) == (Lower(i) # the) /\ (Lower(i) # a)

(* Mutant of IsKept: only "the" is filtered.                                *)
IsKept_onlyThe(i) == i # the

(* The filter of the list comprehension: (i != "the") & (i != "a").         *)
IsKept(i) == (i # the) /\ (i # a)

filter(words) == SelectSeq(words, IsKept)

(* str.encode(): UTF-8.                                                     *)
Utf8(c) ==
  IF c < 128 THEN <<c>>
  ELSE IF c < 2048 THEN <<192 + (c \div 64), 128 + (c % 64)>>
  ELSE IF c < 65536
       THEN <<224 + (c \div 4096), 128 + ((c \div 64) % 64), 128 + (c % 64)>>
       ELSE <<240 + (c \div 262144), 128 + ((c \div 4096) % 64),
              128 + ((c \div 64) % 64), 128 + (c % 64)>>

RECURSIVE encode(_)
encode(string) ==
  IF string = <<>> THEN <<>> ELSE Utf8(Head(string)) \o encode(Tail(string))

(* Mutant of len: the number of bytes of the word's encoding.               *)
len_bytes(i) == Len(encode(i))

(* len(i) of a str: its number of code points.                              *)
len(i) == Len(i)

(* Mutant of IsLong: the threshold is inclusive.                            *)
IsLong_inclusive(i) == len(i) >= 8

(* The test of the counting loop: len(i) > 8.                               *)
IsLong(i) == len(i) > 8

(* The loop "for i in split: if len(i) > 8: l += 1", entered with l.        *)
RECURSIVE countLong(_, _)
countLong(words, l) ==
  IF words = <<>> THEN l
  ELSE countLong(Tail(words), IF IsLong(Head(words)) THEN l + 1 ELSE l)

RECURSIVE Gcd(_, _)
Gcd(m, n) == IF n = 0 THEN m ELSE Gcd(n, m % n)

Float(num, den) ==
  [kind |-> "float", num |-> num \div Gcd(num, den), den |-> den \div Gcd(num, den)]

ZeroDivisionError == [kind |-> "ZeroDivisionError", num |-> 0, den |-> 0]

(* Mutant of TrueDiv: the operands are swapped.                             *)
TrueDiv_swapped(l, n) == IF l = 0 THEN ZeroDivisionError ELSE Float(n, l)

(* l / len(split): true division of two ints; a zero divisor raises.        *)
TrueDiv(l, n) == IF n = 0 THEN ZeroDivisionError ELSE Float(l, n)

(* Mutant of shortLong: the counter l is not reset by the call, it goes on  *)
(* from the calls made before.                                              *)
shortLong_stale(string) ==
  LET words == filter(split(string))
  IN  TrueDiv(countLong(words, Len(calls)), Len(words))

(* def shortLong(string)                                                    *)
shortLong(string) ==
  LET words == filter(split(string))
  IN  TrueDiv(countLong(words, 0), Len(words))

(* str(int(r * 100)) + "%": int() truncates the double product.  For a     *)
(* divisor below 50, far above what the bounds reach, that is the exact     *)
(* floor of 100 * l / n (29 / 50 is the first quotient where it is not).    *)
Percent(r) == ToString((r.num * 100) \div r.den) \o "%"

(* ffi.new("char[]", string): a char array holding the bytes and a          *)
(* terminating NUL; len() of it is the array length.                        *)
ffi_new(string) == Append(string, 0)

(* The number of timed runs of the_code: repeat=20, number=1.               *)
Repeat == 20

-----------------------------------------------------------------------------
(* The first line of the unread part of the file, newline included.        *)
RECURSIVE LineEnd(_, _)
LineEnd(f, i) ==
  IF i >= Len(f) \/ f[i] = 10 THEN i ELSE LineEnd(f, i + 1)

Outcomes ==
  [kind : {"float", "ZeroDivisionError"}, num : Nat, den : Nat]

TypeOK ==
  /\ script \in {"inPython", "withRust"}
  /\ file \in Seq(Nat)
  /\ example \in Seq(Nat)
  /\ pc \in {"load", "print", "timeit", "done", "crashed"}
  /\ \A k \in DOMAIN calls :
       calls[k].text \in Seq(Nat) /\ calls[k].outcome \in Outcomes
  /\ \A k \in DOMAIN ffiCalls :
       ffiCalls[k].buf \in Seq(0..255) /\ ffiCalls[k].length \in Nat
  /\ runs \in 0..Repeat
  /\ stdout \in Seq(STRING)

Init ==
  /\ script \in {"inPython", "withRust"}
  /\ file \in Texts
  /\ example = <<>>
  /\ pc = "load"
  /\ calls = <<>>
  /\ ffiCalls = <<>>
  /\ runs = 0
  /\ stdout = <<>>

(* for line in f: example = example + line                                  *)
LoadLine ==
  /\ pc = "load"
  /\ file # <<>>
  /\ LET n == LineEnd(file, 1)
     IN  /\ example' = example \o SubSeq(file, 1, n)
         /\ file' = SubSeq(file, n + 1, Len(file))
  /\ UNCHANGED <<script, pc, calls, ffiCalls, runs, stdout>>

(* The loop and the with block end at the end of the file.                  *)
CloseFile ==
  /\ pc = "load"
  /\ file = <<>>
  /\ pc' = "print"
  /\ UNCHANGED <<script, file, example, calls, ffiCalls, runs, stdout>>

(* print("Pure Python: "); print(str(int(shortLong(example) * 100)) + "%")  *)
(* An exception raised by the call is caught nowhere: the script ends with  *)
(* a traceback.                                                             *)
PrintResult ==
  /\ script = "inPython"
  /\ pc = "print"
  /\ LET r == shortLong(example)
     IN  /\ calls' = Append(calls, [text |-> example, outcome |-> r])
         /\ IF r.kind = "float"
            THEN /\ stdout' = stdout \o <<"Pure Python: ", Percent(r)>>
                 /\ pc' = "timeit"
            ELSE /\ stdout' = Append(stdout, "Pure Python: ")
                 /\ pc' = "crashed"
  /\ UNCHANGED <<script, file, example, ffiCalls, runs>>

(* timeit.repeat("shortLong(example)", globals=globals(), number=1,         *)
(* repeat=1): one call, then the elapsed time is printed.                   *)
TimeIt ==
  /\ script = "inPython"
  /\ pc = "timeit"
  /\ LET r == shortLong(example)
     IN  /\ calls' = Append(calls, [text |-> example, outcome |-> r])
         /\ IF r.kind = "float"
            THEN /\ stdout' = Append(stdout, "Elapsed time")
                 /\ pc' = "done"
            ELSE /\ stdout' = stdout
                 /\ pc' = "crashed"
  /\ UNCHANGED <<script, file, example, ffiCalls, runs>>

(* string = example.encode(); cstr = ffi.new("char[]", string);             *)
(* lib.short_long(cstr, len(cstr))                                          *)
NativeCall ==
  LET string == encode(example)
      cstr == ffi_new(string)
  IN  [buf |-> cstr, length |-> Len(cstr)]

(* print("With Rust: "); the call; its result printed as a percentage.  The *)
(* native library is not part of these sources: the value it returns is     *)
(* not modelled.                                                            *)
RustPrint ==
  /\ script = "withRust"
  /\ pc = "print"
  /\ ffiCalls' = Append(ffiCalls, NativeCall)
  /\ stdout' = stdout \o <<"With Rust: ", "native%">>
  /\ pc' = "timeit"
  /\ UNCHANGED <<script, file, example, calls, runs>>

(* One of the 20 timed runs of the_code.                                    *)
RustTimed ==
  /\ script = "withRust"
  /\ pc = "timeit"
  /\ runs < Repeat
  /\ ffiCalls' = Append(ffiCalls, NativeCall)
  /\ runs' = runs + 1
  /\ UNCHANGED <<script, file, example, pc, calls, stdout>>

(* The elapsed time is printed after the last run.                          *)
RustElapsed ==
  /\ script = "withRust"
  /\ pc = "timeit"
  /\ runs = Repeat
  /\ stdout' = Append(stdout, "Elapsed time")
  /\ pc' = "done"
  /\ UNCHANGED <<script, file, example, calls, ffiCalls, runs>>

Next ==
  \/ LoadLine
  \/ CloseFile
  \/ PrintResult
  \/ TimeIt
  \/ RustPrint
  \/ RustTimed
  \/ RustElapsed

Spec == Init /\ [][Next]_vars

-----------------------------------------------------------------------------
(* The vocabulary of the word-ratio metric, stated on the positions of a    *)
(* text and independently of split, filter and the counting loop.           *)
SpecWhitespace == {32, 9, 10}

StopWords == {the, a}

WordStarts(t) ==
  {i \in 1..Len(t) :
     t[i] \notin SpecWhitespace /\ (i = 1 \/ t[i - 1] \in SpecWhitespace)}

WordEnd(t, i) ==
  CHOOSE j \in i..Len(t) :
    /\ \A k \in i..j : t[k] \notin SpecWhitespace
    /\ j = Len(t) \/ t[j + 1] \in SpecWhitespace

WordAt(t, i) == SubSeq(t, i, WordEnd(t, i))

QualifyingAt(t) == {i \in WordStarts(t) : WordAt(t, i) \notin StopWords}

Q(t) == Cardinality(QualifyingAt(t))

L(t) == Cardinality({i \in QualifyingAt(t) : Len(WordAt(t, i)) > 8})

InsertAt(t, p, s) == SubSeq(t, 1, p) \o s \o SubSeq(t, p + 1, Len(t))

RemoveRange(t, i, j) == SubSeq(t, 1, i - 1) \o SubSeq(t, j + 1, Len(t))

(* The positions between two words, before the first and after the last.   *)
Boundaries(t) ==
  {p \in 0..Len(t) :
     p = 0 \/ p = Len(t) \/ t[p] \in SpecWhitespace \/ t[p + 1] \in SpecWhitespace}

-----------------------------------------------------------------------------
(* C1: for every text with at least one qualifying word, shortLong returns  *)
(* L / Q: Q the number of whitespace-delimited words other than "the" and   *)
(* "a", L the number of those longer than 8 characters (8 is not long, 9    *)
(* is).                                                                     *)
C1_ReturnsLOverQ ==
  \A k \in DOMAIN calls :
    LET t == calls[k].text
        r == calls[k].outcome
    IN  Q(t) > 0 =>
          /\ r.kind = "float"
          /\ r.den > 0
          /\ r.num * Q(t) = L(t) * r.den

C1_Witness ==
  \E k \in DOMAIN calls :
    LET t == calls[k].text
    IN  /\ \E i \in QualifyingAt(t) : Len(WordAt(t, i)) = 8
        /\ \E i \in QualifyingAt(t) : Len(WordAt(t, i)) = 9
        /\ calls[k].outcome = [kind |-> "float", num |-> 1, den |-> 2]

(* C2: for every text with Q > 0 the value returned by shortLong lies in    *)
(* the closed interval [0, 1].                                              *)
C2_RatioInUnitInterval ==
  \A k \in DOMAIN calls :
    LET r == calls[k].outcome
    IN  Q(calls[k].text) > 0 =>
          r.kind = "float" /\ r.den > 0 /\ 0 <= r.num /\ r.num <= r.den

C2_Witness ==
  \E k \in DOMAIN calls :
    /\ Q(calls[k].text) = 2
    /\ L(calls[k].text) = 2
    /\ calls[k].outcome = [kind |-> "float", num |-> 1, den |-> 1]

(* C3: when the qualifying-word count is zero, shortLong reports it to its  *)
(* caller as an error value or a handled exception: no ratio comes back     *)
(* and the calling program does not crash.                                  *)
C3_EmptyReportedWithoutCrash ==
  \A k \in DOMAIN calls :
    Q(calls[k].text) = 0 =>
      calls[k].outcome.kind # "float" /\ pc # "crashed"

(* C4: every input, the empty text and a text of stopwords included, is     *)
(* handled without error and gives a ratio in [0, 1].                       *)
C4_EveryInputGivesRatio ==
  \A k \in DOMAIN calls :
    LET r == calls[k].outcome
    IN  r.kind = "float" /\ r.den > 0 /\ 0 <= r.num /\ r.num <= r.den

(* C5: texts that differ only in which of space, tab and newline separate   *)
(* the words, in the length of the whitespace runs or in leading and        *)
(* trailing whitespace have the same outcome, and whitespace alone makes    *)
(* no word.                                                                 *)
WsReplaced(t) ==
  {[t EXCEPT ![i] = c] :
     i \in {j \in 1..Len(t) : t[j] \in SpecWhitespace}, c \in SpecWhitespace}

WsLengthened(t) ==
  {InsertAt(t, p, <<c>>) : p \in Boundaries(t), c \in SpecWhitespace}

WsShortened(t) ==
  {RemoveRange(t, i, i) :
     i \in {j \in 1..Len(t) :
              /\ t[j] \in SpecWhitespace
              /\ \/ j = 1
                 \/ j = Len(t)
                 \/ t[j - 1] \in SpecWhitespace
                 \/ t[j + 1] \in SpecWhitespace}}

C5_WhitespaceNormalization ==
  \A k \in DOMAIN calls :
    LET t == calls[k].text
    IN  /\ \A u \in WsReplaced(t) \cup WsLengthened(t) \cup WsShortened(t) :
             shortLong(u) = calls[k].outcome
        /\ (\A i \in 1..Len(t) : t[i] \in SpecWhitespace) =>
             calls[k].outcome.kind = "ZeroDivisionError"

C5_Witness ==
  \E k \in DOMAIN calls :
    LET t == calls[k].text
    IN  /\ calls[k].outcome.kind = "float"
        /\ \E i \in 1..Len(t) : t[i] = 9
        /\ \E i \in 1..(Len(t) - 1) :
             t[i] \in SpecWhitespace /\ t[i + 1] \in SpecWhitespace

(* C6: a word is removed by the filter exactly when it equals "the" or "a": *)
(* a case variant and a word that only contains a stopword stay qualifying  *)
(* and count toward Q.                                                      *)
C6_ExactStopwordFilter ==
  \A k \in DOMAIN calls :
    LET t == calls[k].text
        words == {WordAt(t, i) : i \in WordStarts(t)}
    IN  /\ \A w \in words : (filter(<<w>>) = <<>>) <=> (w \in StopWords)
        /\ Len(filter(split(t))) = Q(t)
        /\ (calls[k].outcome.kind = "ZeroDivisionError") <=>
             (\A w \in words : w \in StopWords)

C6_Witness ==
  \E k \in DOMAIN calls :
    LET t == calls[k].text
        words == {WordAt(t, i) : i \in WordStarts(t)}
    IN  /\ \E w \in words : w \in {The, A}
        /\ \E w \in words :
             /\ w \notin StopWords
             /\ \E i \in 1..Len(w) : SubSeq(w, i, i) = a
        /\ Q(t) = 2
        /\ calls[k].outcome.kind = "float"

(* C7: a call of shortLong leaves the module-level text example as it was,  *)
(* and any two calls with the same text have the same outcome, whatever     *)
(* calls came before.                                                       *)
CallsAgree(log) ==
  \A i, j \in DOMAIN log :
    log[i].text = log[j].text => log[i].outcome = log[j].outcome

C7_DeterministicStateless ==
  [][/\ calls' # calls => example' = example /\ calls'[Len(calls')].text = example
     /\ CallsAgree(calls')]_vars

C7_Witness ==
  /\ pc = "done"
  /\ Len(calls) = 2
  /\ calls[1].text = example
  /\ calls[2].text = example
  /\ calls[2].outcome.kind = "float"
  /\ calls[2].outcome.num > 0

(* C8: every call of the native short_long passes, with the buffer, a       *)
(* length equal to the byte length of the encoded text, the terminating    *)
(* NUL not counted.                                                         *)
C8_LengthIsByteLength ==
  \A k \in DOMAIN ffiCalls :
    ffiCalls[k].length = Len(encode(example))

(* C9: a word is long by its number of characters, not by the bytes of its  *)
(* encoding: a qualifying word of at most 8 characters is not counted in L  *)
(* even when its UTF-8 encoding is longer than 8 bytes.                     *)
WideShortWords(t) ==
  {i \in QualifyingAt(t) :
     Len(WordAt(t, i)) <= 8 /\ Len(encode(WordAt(t, i))) > 8}

C9_LongByCharacters ==
  \A k \in DOMAIN calls :
    LET t == calls[k].text
        r == calls[k].outcome
    IN  WideShortWords(t) # {} =>
          /\ r.kind = "float"
          /\ r.num * Q(t) =
               r.den * Cardinality({i \in QualifyingAt(t) : Len(WordAt(t, i)) > 8})

C9_Witness ==
  \E k \in DOMAIN calls :
    /\ WideShortWords(calls[k].text) # {}
    /\ L(calls[k].text) = 1
    /\ calls[k].outcome = [kind |-> "float", num |-> 1, den |-> 2]

(* C10: for a text with Q > 0, inserting a whitespace-separated "the" or    *)
(* "a" at a word position, or deleting such a token, changes neither L nor  *)
(* Q nor the result of shortLong.                                           *)
StopInserted(t) ==
  {InsertAt(t, p, SP \o s \o SP) : p \in Boundaries(t), s \in StopWords}

StopDeleted(t) ==
  {RemoveRange(t, i, WordEnd(t, i)) :
     i \in {j \in WordStarts(t) : WordAt(t, j) \in StopWords}}

C10_StopwordsInvisible ==
  \A k \in DOMAIN calls :
    LET t == calls[k].text
    IN  Q(t) > 0 =>
          \A u \in StopInserted(t) \cup StopDeleted(t) :
            /\ shortLong(u) = calls[k].outcome
            /\ Len(filter(split(u))) = Len(filter(split(t)))
            /\ countLong(filter(split(u)), 0) = countLong(filter(split(t)), 0)

C10_Witness ==
  \E k \in DOMAIN calls :
    /\ StopDeleted(calls[k].text) # {}
    /\ L(calls[k].text) > 0
    /\ calls[k].outcome = [kind |-> "float", num |-> 1, den |-> 1]

====
